---- MODULE Spec2Model ----
(***************************************************************************)
(* A model of pdf_names_indexer.py: the name loader, the per-page          *)
(* occurrence matcher with its cross-page join, the report writer and the  *)
(* text normalisation helpers.                                             *)
(*                                                                         *)
(* Text is a sequence of characters and a character is a string: the       *)
(* ASCII characters stand for themselves, "\n" is the line break and the   *)
(* three characters of the mis-decoded right single quote are named by     *)
(* their code points, "U+00E2" "U+20AC" "U+2122".                          *)
(***************************************************************************)
EXTENDS Integers, Sequences, FiniteSets, TLC

VARIABLES
    pc,                \* position in index_names: "names", "scan", "write", "done",
                       \* "error"; "idle" when a helper is applied on its own
    error,             \* the exception that left index_names, or "none"
    case_insensitive,  \* argument of index_names
    page_offset,       \* argument of index_names
    style,             \* arguments separator, pages_separator, page_prefix
    names,             \* the active name list returned by _get_names
    duplicates,        \* the duplicates list returned by _get_names
    name2pages,        \* the occurrence map (keys are the names that have an entry)
    count,             \* running total of occurrences in _parse_names
    page_nr_prev,      \* number of the page processed last, -1 before the first
    text_prev,         \* normalised text of the page processed last
    outfh,             \* lines written to the output stream
    not_found,         \* names collected by _write_output as not found
    next_name,         \* index in names of the name _write_output handles next
    call,              \* arguments of a helper applied on its own
    ret                \* the value that helper returned, or Pending

vars == <<pc, error, case_insensitive, page_offset, style, names, duplicates,
          name2pages, count, page_nr_prev, text_prev, outfh, not_found,
          next_name, call, ret>>

indexer_vars == <<pc, error, case_insensitive, page_offset, style, names,
                  duplicates, name2pages, count, page_nr_prev, text_prev,
                  outfh, not_found, next_name>>

\* index_names is not running: a helper is applied on its own
Idle ==
    /\ pc = "idle"
    /\ error = "none"
    /\ case_insensitive = FALSE
    /\ page_offset = 0
    /\ style = <<>>
    /\ names = <<>>
    /\ duplicates = <<>>
    /\ name2pages = <<>>
    /\ count = 0
    /\ page_nr_prev = -1
    /\ text_prev = <<>>
    /\ outfh = <<>>
    /\ not_found = <<>>
    /\ next_name = 1

\* the value a helper returned, or that it has not returned yet
Pending == [done |-> FALSE]

Returned(value) == [done |-> TRUE, value |-> value]

(***************************************************************************)
(* Bounds of the model.                                                    *)
(***************************************************************************)
\* lines of the names file the indexer reads
MaxLines == 2

\* pages of the document
MaxPages == 3

\* lines of the names file when _get_names is applied on its own
MaxFileLines == 3

\* characters of a names-file entry when the normalisations are compared
MaxEntryLen == 4

\* entries of a generated page filter specification
MaxSpecItems == 2

\* characters of a text when _flatten_text is applied on its own
MaxFlattenLen == 4

(***************************************************************************)
(* Characters.                                                             *)
(***************************************************************************)
\* \w of a str pattern: letters, digits and the underscore.
WordChars ==
    {"A", "B", "L", "a", "b", "e", "n", "o", "x", "p", "U+00E2",
     "0", "1", "2", "3", "4", "5", "6", "7", "8", "9", "_"}

\* The characters str.strip() removes.
Whitespace == {" ", "\n"}

\* Code points, the order list.sort() and sorted() compare strings by.
ord(c) ==
    CASE c = "\n" -> 10 [] c = " " -> 32 [] c = "'" -> 39 [] c = "," -> 44
      [] c = "-" -> 45 [] c = "." -> 46
      [] c = "0" -> 48 [] c = "1" -> 49 [] c = "2" -> 50 [] c = "3" -> 51
      [] c = "4" -> 52 [] c = "5" -> 53 [] c = "6" -> 54 [] c = "7" -> 55
      [] c = "8" -> 56 [] c = "9" -> 57 [] c = ":" -> 58
      [] c = "A" -> 65 [] c = "B" -> 66 [] c = "L" -> 76 [] c = "_" -> 95
      [] c = "a" -> 97 [] c = "b" -> 98 [] c = "e" -> 101 [] c = "n" -> 110
      [] c = "o" -> 111 [] c = "p" -> 112 [] c = "x" -> 120
      [] c = "U+00E2" -> 226 [] c = "U+20AC" -> 8364 [] c = "U+2122" -> 8482

\* str.lower() on one character.
lower_char(c) ==
    CASE c = "A" -> "a" [] c = "B" -> "b" [] c = "L" -> "l" [] OTHER -> c

\* str.lower()
lower(text) == [k \in 1..Len(text) |-> lower_char(text[k])]

\* text.startswith(old, i) with a 0-based offset.
StartsWithAt(text, old, i) ==
    /\ i + Len(old) <= Len(text)
    /\ \A k \in 1..Len(old) : text[i + k] = old[k]

\* str.replace(old, new) for a non-empty old: leftmost, non-overlapping.
RECURSIVE replace_from(_, _, _, _)
replace_from(text, old, new, i) ==
    IF i >= Len(text) THEN <<>>
    ELSE IF StartsWithAt(text, old, i)
         THEN new \o replace_from(text, old, new, i + Len(old))
         ELSE <<text[i + 1]>> \o replace_from(text, old, new, i + 1)

replace(text, old, new) == replace_from(text, old, new, 0)

\* "old in text"
Contains(text, old) == \E i \in 0..(Len(text) - Len(old)) : StartsWithAt(text, old, i)

\* str.strip()
RECURSIVE lstrip(_)
lstrip(text) ==
    IF text # <<>> /\ Head(text) \in Whitespace THEN lstrip(Tail(text)) ELSE text

RECURSIVE rstrip(_)
rstrip(text) ==
    IF text # <<>> /\ text[Len(text)] \in Whitespace
    THEN rstrip(SubSeq(text, 1, Len(text) - 1))
    ELSE text

strip(text) == rstrip(lstrip(text))

\* Comparison of two strings by code points, as the sort does.
RECURSIVE StrLess(_, _)
StrLess(a, b) ==
    IF a = <<>> THEN b # <<>>
    ELSE IF b = <<>> THEN FALSE
    ELSE IF Head(a) = Head(b) THEN StrLess(Tail(a), Tail(b))
    ELSE ord(Head(a)) < ord(Head(b))

\* sorted(xs) of a set of strings.
RECURSIVE sorted(_)
sorted(xs) ==
    IF xs = {} THEN <<>>
    ELSE LET least == CHOOSE x \in xs : \A y \in xs \ {x} : StrLess(x, y)
         IN <<least>> \o sorted(xs \ {least})

(***************************************************************************)
(* Text normalisation.                                                     *)
(***************************************************************************)
Artifact == <<"U+00E2", "U+20AC", "U+2122">>

_simplify_text(text) == replace(text, Artifact, <<"'">>)

RECURSIVE collapse_spaces(_)
collapse_spaces(text) ==
    IF Contains(text, <<" ", " ">>)
    THEN collapse_spaces(replace(text, <<" ", " ">>, <<" ">>))
    ELSE text

_flatten_text(text) ==
    collapse_spaces(replace(replace(text, <<"-", "\n">>, <<>>), <<"\n">>, <<" ">>))

(***************************************************************************)
(* _get_names: the loop over the lines of the names file.  unique_names is *)
(* created empty and the loop never adds to it.                            *)
(***************************************************************************)
RECURSIVE get_names_loop(_, _, _, _, _, _)
get_names_loop(fh, i, case_insensitive_, names_, unique_names, duplicates_) ==
    IF i > Len(fh) THEN <<names_, duplicates_>>
    ELSE LET name == _simplify_text(strip(fh[i]))
             unique_name == IF case_insensitive_ THEN lower(name) ELSE name
         IN IF name = <<>>
            THEN get_names_loop(fh, i + 1, case_insensitive_, names_,
                                unique_names, duplicates_)
            ELSE IF unique_name \in unique_names
            THEN get_names_loop(fh, i + 1, case_insensitive_, names_,
                                unique_names, duplicates_ \cup {name})
            ELSE get_names_loop(fh, i + 1, case_insensitive_,
                                Append(names_, name), unique_names, duplicates_)

_get_names(fh, sort, case_insensitive_) ==
    LET r == get_names_loop(fh, 1, case_insensitive_, <<>>, {}, {})
    IN <<IF sort THEN SortSeq(r[1], StrLess) ELSE r[1], sorted(r[2])>>

(***************************************************************************)
(* The matcher of _parse_names: re.compile(rf"\b{re.escape(name)}\b").     *)
(* A pattern is a sequence of tokens: <<"\\", "b">> is the word boundary   *)
(* assertion, <<"\\", c>> the escaped character c, <<".">> any character   *)
(* but the line break, and <<c>> the character c.                          *)
(***************************************************************************)
\* The characters of the model that re.escape() puts a backslash before.
SpecialChars == {".", "-", " ", "\n"}

re_escape(name) ==
    [k \in 1..Len(name) |->
        IF name[k] \in SpecialChars THEN <<"\\", name[k]>> ELSE <<name[k]>>]

WordBoundary == <<"\\", "b">>

\* line 90: the compiled pattern of a name, with re.IGNORECASE or without
name_re(name, ignorecase) ==
    [tokens |-> <<WordBoundary>> \o re_escape(name) \o <<WordBoundary>>,
     ignorecase |-> ignorecase]

IsWordAt(text, k) == k \in 1..Len(text) /\ text[k] \in WordChars

\* \b at offset pos: exactly one of the characters around it is a word character.
AtBoundary(text, pos) == IsWordAt(text, pos) # IsWordAt(text, pos + 1)

TokenMatches(tok, c, ignorecase) ==
    IF tok = <<".">> THEN c # "\n"
    ELSE LET lit == tok[Len(tok)]
         IN IF ignorecase THEN lower_char(lit) = lower_char(c) ELSE lit = c

RECURSIVE match_at(_, _, _, _)
match_at(pattern, k, text, pos) ==
    IF k > Len(pattern.tokens) THEN TRUE
    ELSE IF pattern.tokens[k] = WordBoundary
         THEN AtBoundary(text, pos) /\ match_at(pattern, k + 1, text, pos)
         ELSE /\ pos < Len(text)
              /\ TokenMatches(pattern.tokens[k], text[pos + 1], pattern.ignorecase)
              /\ match_at(pattern, k + 1, text, pos + 1)

\* pattern.search(text) is not None
search(pattern, text) == \E pos \in 0..Len(text) : match_at(pattern, 1, text, pos)

(***************************************************************************)
(* Inputs of the indexer.                                                  *)
(***************************************************************************)
Ann == <<"A", "n", "n">>

LineSet ==
    { Ann \o <<"\n">>,
      <<"a", "n", "n", "\n">>,
      <<" ", "B", "o", "b", " ", "\n">>,
      <<"\n">> }

\* Raw page texts as the extraction yields them.
PageTextSet ==
    { <<"A", "n", "n", " ", "B", "o", "b", "\n">>,
      <<"x", " ", "A", "n">>,
      <<"n", " ", "x">>,
      <<"n", " ", "x", " ", "A", "n">>,
      <<"A", "n", "n", "a">>,
      <<"B", "o", "-", "\n", "b">> }

RECURSIVE SeqsUpTo(_, _)
SeqsUpTo(S, n) ==
    IF n = 0 THEN {<<>>}
    ELSE LET shorter == SeqsUpTo(S, n - 1)
         IN shorter \cup {Append(s, x) : s \in {t \in shorter : Len(t) = n - 1}, x \in S}

DefaultStyle ==
    [separator |-> <<" ", ":", " ">>, pages_separator |-> <<",", " ">>, page_prefix |-> <<>>]

Arguments ==
    { [page_offset |-> 0, style |-> DefaultStyle],
      [page_offset |-> 10, style |-> DefaultStyle],
      [page_offset |-> 10,
       style |-> [separator |-> <<" ", ":", " ">>, pages_separator |-> <<"-">>,
                  page_prefix |-> <<"p">>]] }

Range(s) == {s[k] : k \in 1..Len(s)}

(***************************************************************************)
(* Formatting of the report.                                               *)
(***************************************************************************)
\* str(p)
RECURSIVE digits(_)
digits(n) ==
    LET d == <<"0", "1", "2", "3", "4", "5", "6", "7", "8", "9">>[(n % 10) + 1]
    IN IF n < 10 THEN <<d>> ELSE Append(digits(n \div 10), d)

str(p) == IF p < 0 THEN <<"-">> \o digits(0 - p) ELSE digits(p)

\* sep.join(parts)
RECURSIVE join(_, _)
join(sep, parts) ==
    IF parts = <<>> THEN <<>>
    ELSE IF Len(parts) = 1 THEN parts[1]
    ELSE parts[1] \o sep \o join(sep, Tail(parts))

\* line 143: the line written for a name
output_line(name, pages) ==
    name \o style.separator
         \o join(style.pages_separator,
                 [k \in 1..Len(pages) |-> style.page_prefix \o str(pages[k])])
         \o <<"\n">>

(***************************************************************************)
(* index_names                                                             *)
(***************************************************************************)
IdleCall == [fn |-> "none"]

Init ==
    /\ pc = "names"
    /\ error = "none"
    /\ case_insensitive \in BOOLEAN
    /\ \E a \in Arguments : page_offset = a.page_offset /\ style = a.style
    /\ names = <<>>
    /\ duplicates = <<>>
    /\ name2pages = <<>>
    /\ count = 0
    /\ page_nr_prev = -1
    /\ text_prev = <<>>
    /\ outfh = <<>>
    /\ not_found = <<>>
    /\ next_name = 1
    /\ call = IdleCall
    /\ ret = Pending

\* line 42: the names file is read whole
GetNames ==
    /\ pc = "names"
    /\ \E fh \in SeqsUpTo(LineSet, MaxLines), sort \in BOOLEAN :
          LET r == _get_names(fh, sort, case_insensitive)
          IN names' = r[1] /\ duplicates' = r[2]
    /\ pc' = "scan"
    /\ UNCHANGED <<error, case_insensitive, page_offset, style, name2pages, count,
                   page_nr_prev, text_prev, outfh, not_found, next_name, call, ret>>

\* mapping.get(name, [])
get(mapping, name) == IF name \in DOMAIN mapping THEN mapping[name] ELSE <<>>

\* name2pages.get(name, [])
pages_of(name) == get(name2pages, name)

\* line 104
FoundInPage(name, text) == search(name_re(name, case_insensitive), text)

\* mutant of PrevRecorded: the guard of line 109 is dropped
PrevRecordedUnguarded(name) == FALSE

\* line 109, negated: the previous page is already in the name's list
PrevRecorded(name) == page_nr_prev \in Range(pages_of(name))

\* line 110
FoundAcross(name, text) == search(name_re(name, case_insensitive), text_prev \o text)

\* mutant of JoinPage: the match is recorded under the current page
JoinPageCurrent(page_nr) == page_nr

\* line 111: the page a match across the page break is recorded under
JoinPage(page_nr) == page_nr_prev

\* lines 104-111 for one name: the name's list after the page
pages_after(name, page_nr, text) ==
    IF FoundInPage(name, text) THEN Append(pages_of(name), page_nr)
    ELSE IF ~PrevRecorded(name) /\ FoundAcross(name, text)
         THEN Append(pages_of(name), JoinPage(page_nr))
         ELSE pages_of(name)

\* lines 106: count += 1 for each name of the page that takes the first branch
count_after(text) == count + Cardinality({n \in Range(names) : FoundInPage(n, text)})

NextPageNr == IF page_nr_prev = -1 THEN 1 ELSE page_nr_prev + 1

\* mutant of ParsePage: the line of a name found on the page is written at once
ParsePageStreaming ==
    /\ pc = "scan"
    /\ NextPageNr <= MaxPages
    /\ \E raw \in PageTextSet :
          LET text == _simplify_text(_flatten_text(raw))
              page_nr == NextPageNr
              keys == DOMAIN name2pages \cup
                      {n \in Range(names) : pages_after(n, page_nr, text) # pages_of(n)}
              found == SelectSeq(names, LAMBDA n : FoundInPage(n, text))
          IN /\ name2pages' = [n \in keys |-> pages_after(n, page_nr, text)]
             /\ count' = count_after(text)
             /\ page_nr_prev' = page_nr
             /\ text_prev' = text
             /\ outfh' = outfh \o [k \in 1..Len(found) |->
                                      output_line(found[k], <<page_nr + page_offset>>)]
    /\ UNCHANGED <<pc, error, case_insensitive, page_offset, style, names, duplicates,
                   not_found, next_name, call, ret>>

\* lines 97-113: one page of the document
ParsePage ==
    /\ pc = "scan"
    /\ NextPageNr <= MaxPages
    /\ \E raw \in PageTextSet :
          LET text == _simplify_text(_flatten_text(raw))
              page_nr == NextPageNr
              keys == DOMAIN name2pages \cup
                      {n \in Range(names) : pages_after(n, page_nr, text) # pages_of(n)}
          IN /\ name2pages' = [n \in keys |-> pages_after(n, page_nr, text)]
             /\ count' = count_after(text)
             /\ page_nr_prev' = page_nr
             /\ text_prev' = text
    /\ UNCHANGED <<pc, error, case_insensitive, page_offset, style, names, duplicates,
                   outfh, not_found, next_name, call, ret>>

\* lines 123-132: the extraction of the next page raises
ExtractFail ==
    /\ pc = "scan"
    /\ pc' = "error"
    /\ error' = "ExtractionError"
    /\ UNCHANGED <<case_insensitive, page_offset, style, names, duplicates, name2pages,
                   count, page_nr_prev, text_prev, outfh, not_found, next_name, call, ret>>

\* lines 48-53
offset_pages == 
    IF page_offset # 0
    THEN [n \in DOMAIN name2pages |->
            [k \in 1..Len(name2pages[n]) |-> name2pages[n][k] + page_offset]]
    ELSE name2pages

\* lines 114-115 and 48-55: the document is exhausted
ParseEnd ==
    /\ pc = "scan"
    /\ pc' = "write"
    /\ name2pages' = offset_pages
    /\ UNCHANGED <<error, case_insensitive, page_offset, style, names, duplicates,
                   count, page_nr_prev, text_prev, outfh, not_found, next_name, call, ret>>

\* line 139 on the plain dict of lines 50-53: the name has no key
LookupRaises(name) == page_offset # 0 /\ name \notin DOMAIN name2pages

\* lines 138-143: one name of the list, when the lookup returns
WriteName ==
    /\ pc = "write"
    /\ next_name <= Len(names)
    /\ LET name == names[next_name]
           pages == pages_of(name)
       IN /\ ~LookupRaises(name)
          /\ name2pages' = IF name \in DOMAIN name2pages THEN name2pages
                           ELSE [n \in DOMAIN name2pages \cup {name} |->
                                    IF n = name THEN <<>> ELSE name2pages[n]]
          /\ IF pages = <<>>
             THEN not_found' = Append(not_found, name) /\ outfh' = outfh
             ELSE outfh' = Append(outfh, output_line(name, pages)) /\ not_found' = not_found
    /\ next_name' = next_name + 1
    /\ UNCHANGED <<pc, error, case_insensitive, page_offset, style, names, duplicates,
                   count, page_nr_prev, text_prev, call, ret>>

\* line 139: name2pages[name] raises KeyError and index_names is left
WriteRaise ==
    /\ pc = "write"
    /\ next_name <= Len(names)
    /\ LookupRaises(names[next_name])
    /\ pc' = "error"
    /\ error' = "KeyError"
    /\ UNCHANGED <<case_insensitive, page_offset, style, names, duplicates, name2pages,
                   count, page_nr_prev, text_prev, outfh, not_found, next_name, call, ret>>

\* lines 144-145: the loop is over
WriteEnd ==
    /\ pc = "write"
    /\ next_name > Len(names)
    /\ pc' = "done"
    /\ UNCHANGED <<error, case_insensitive, page_offset, style, names, duplicates,
                   name2pages, count, page_nr_prev, text_prev, outfh, not_found,
                   next_name, call, ret>>

Next ==
    \/ GetNames
    \/ ParsePage
    \/ ExtractFail
    \/ ParseEnd
    \/ WriteName
    \/ WriteRaise
    \/ WriteEnd

Spec == Init /\ [][Next]_vars

(***************************************************************************)
(* Properties of index_names, checked under Spec.                          *)
(***************************************************************************)
IsPageStep == pc = "scan" /\ pc' = "scan" /\ page_nr_prev' # page_nr_prev

\* C2: on page N >= 2, a name that matches neither the previous page's text
\* nor this page's text alone but matches the two texts concatenated gets
\* page N-1 appended and not page N; when either page matches alone, nothing
\* is appended through the concatenation (only page N, when page N matches).
C2_CrossPageJoin ==
    [][ (IsPageStep /\ page_nr_prev >= 1) =>
          \A n \in Range(names) :
             LET before == get(name2pages, n)
                 after == get(name2pages', n)
                 alone_prev == search(name_re(n, case_insensitive), text_prev)
                 alone_cur == search(name_re(n, case_insensitive), text_prev')
                 joined == search(name_re(n, case_insensitive), text_prev \o text_prev')
             IN /\ (~alone_prev /\ ~alone_cur /\ joined)
                      => after = Append(before, page_nr_prev)
                /\ (alone_prev \/ alone_cur)
                      => after = IF alone_cur THEN Append(before, page_nr_prev')
                                 ELSE before ]_vars

\* C2 witness: after page 2, Ann is recorded under page 1 only, no name was
\* found inside a page, and page 2's text holds the second half of the name.
C2_Witness ==
    /\ pc = "scan"
    /\ page_nr_prev = 2
    /\ count = 0
    /\ text_prev = <<"n", " ", "x">>
    /\ Ann \in DOMAIN name2pages
    /\ name2pages[Ann] = <<1>>

RECURSIVE SumLens(_, _)
SumLens(mapping, keys) ==
    IF keys = {} THEN 0
    ELSE LET n == CHOOSE x \in keys : TRUE
         IN Len(mapping[n]) + SumLens(mapping, keys \ {n})

\* the names of the list that have recorded pages, and those that have none
WithPages == SelectSeq(names, LAMBDA n : get(name2pages, n) # <<>>)

WithoutPages == SelectSeq(names, LAMBDA n : get(name2pages, n) = <<>>)

\* C4: a name without recorded pages is never an error that aborts the run;
\* the run completes with that name collected as not found, no line for it,
\* and the lines of all other names written.
C4_NotFoundNonFatal ==
    /\ ~(pc = "error" /\ error = "KeyError")
    /\ pc = "done" => not_found = WithoutPages /\ Len(outfh) = Len(WithPages)

\* C5: when the writer has stopped, the output holds exactly one line for each
\* name with a non-empty page list: the name, the separator and its pages in
\* recorded order, each as page_prefix and the offset page number, joined by
\* pages_separator; the lines are in the order of the names list.
C5_ReportFormat ==
    (pc = "done" \/ (pc = "error" /\ error = "KeyError")) =>
        outfh = [k \in 1..Len(WithPages) |->
                    WithPages[k] \o style.separator
                      \o join(style.pages_separator,
                              [i \in 1..Len(name2pages[WithPages[k]]) |->
                                  style.page_prefix \o str(name2pages[WithPages[k]][i])])
                      \o <<"\n">>]

\* C7: nothing is written before every page has been scanned, and a run that
\* an extraction error ended has written no line at all.
C7_NoPartialOutput ==
    /\ outfh # <<>> => pc \in {"write", "done"} \/ (pc = "error" /\ error = "KeyError")
    /\ (pc = "error" /\ error = "ExtractionError") => outfh = <<>>

\* C7 witness: the extraction failed after page 2, with occurrences recorded,
\* and nothing has been written.
C7_Witness ==
    /\ pc = "error"
    /\ error = "ExtractionError"
    /\ page_nr_prev = 2
    /\ DOMAIN name2pages # {}
    /\ outfh = <<>>

StrictlyIncreasing(pages) ==
    \A i, j \in 1..Len(pages) : i < j => pages[i] < pages[j]

IsPrefix(a, b) == Len(a) <= Len(b) /\ SubSeq(b, 1, Len(a)) = a

PageListsOk ==
    pc = "scan" =>
        /\ \A n \in DOMAIN name2pages :
              /\ StrictlyIncreasing(name2pages[n])
              /\ \A k \in 1..Len(name2pages[n]) : name2pages[n][k] \in 1..page_nr_prev
        /\ page_nr_prev = 1 =>
              \A n \in DOMAIN name2pages :
                 search(name_re(n, case_insensitive), text_prev)

\* C9: after each page n of _parse_names every name's page list is strictly
\* increasing with entries in 1..n (never the sentinel -1), after page 1 every
\* recorded name matches page 1's own text, and a step of the scan only
\* appends to the lists.
C9_PageLists ==
    [][ /\ PageListsOk'
        /\ (pc = "scan" /\ pc' = "scan") =>
              \A n \in DOMAIN name2pages :
                 IsPrefix(name2pages[n], get(name2pages', n)) ]_vars

\* C9 witness: after page 3, Ann is recorded under pages 1 and 2, both
\* through the join (no name was found inside a page).
C9_Witness ==
    /\ pc = "scan"
    /\ page_nr_prev = 3
    /\ count = 0
    /\ Ann \in DOMAIN name2pages
    /\ name2pages[Ann] = <<1, 2>>

\* C10: after every processed page the counter equals the number of
\* (name, page) pairs in the occurrence map.
C10_CounterIsTotal ==
    pc = "scan" => count = SumLens(name2pages, DOMAIN name2pages)

(***************************************************************************)
(* _get_names applied on its own to a names file.                          *)
(***************************************************************************)
FileLineSet ==
    { Ann \o <<"\n">>,
      <<"B", "o", "b", "\n">>,
      <<"a", "n", "n", "\n">>,
      <<"\n">>,
      Ann }

InitNames ==
    /\ Idle
    /\ call \in { [fn |-> "_get_names", fh |-> f, sort |-> s, case_insensitive |-> c] :
                    f \in SeqsUpTo(FileLineSet, MaxFileLines), s \in BOOLEAN, c \in BOOLEAN }
    /\ ret = Pending

CallGetNames ==
    /\ call.fn = "_get_names"
    /\ ~ret.done
    /\ ret' = Returned(_get_names(call.fh, call.sort, call.case_insensitive))
    /\ UNCHANGED <<call, indexer_vars>>

SpecNames == InitNames /\ [][CallGetNames]_vars

\* C1: the active name list never holds two entries with the same lookup key
\* (the normalised name, lower-cased in case-insensitive mode); every
\* non-empty line whose key an earlier line had is in the duplicates list and
\* adds no entry to the active list.
C1_UniqueLookupKeys ==
    (call.fn = "_get_names" /\ ret.done) =>
        LET key(n) == IF call.case_insensitive THEN lower(n) ELSE n
            entry(i) == _simplify_text(strip(call.fh[i]))
            filled == {i \in 1..Len(call.fh) : entry(i) # <<>>}
            active == ret.value[1]
            dups == ret.value[2]
        IN /\ \A i, j \in 1..Len(active) : i # j => key(active[i]) # key(active[j])
           /\ \A i \in filled :
                 (\E j \in filled : j < i /\ key(entry(j)) = key(entry(i)))
                    => entry(i) \in Range(dups)
           /\ Len(active) = Cardinality({key(entry(i)) : i \in filled})

(***************************************************************************)
(* The matcher applied on its own to a name and a page text.               *)
(***************************************************************************)
MatchNameSet ==
    { Ann, <<"A", ".">>, <<"'", "n">>, <<"B", "o", "b">> }

MatchTextSet ==
    { <<"A", "n", "n", "a">>,
      <<"A", "n", "n", "'", "n">>,
      Ann,
      <<"x", " ", "A", "n", "n", ".">>,
      <<"a", "n", "n", " ", "B", "o", "b">>,
      <<"A", ".", " ", "x">>,
      <<"x", "A", ".", " ", "x">>,
      <<"x", " ", "'", "n">>,
      <<"B", "o", "b", "'", "n", "x">>,
      <<"B", "o", "b", "b", "-", "A", ".">>,
      <<>> }

InitMatch ==
    /\ Idle
    /\ call \in { [fn |-> "search", name |-> n, text |-> t, case_insensitive |-> c] :
                    n \in MatchNameSet, t \in MatchTextSet, c \in BOOLEAN }
    /\ ret = Pending

CallSearch ==
    /\ call.fn = "search"
    /\ ~ret.done
    /\ ret' = Returned(search(name_re(call.name, call.case_insensitive), call.text))
    /\ UNCHANGED <<call, indexer_vars>>

SpecMatch == InitMatch /\ [][CallSearch]_vars

\* the name stands in the text at offset i (letter case ignored in
\* case-insensitive mode)
OccursAt(name, text, i, ignorecase) ==
    /\ i + Len(name) <= Len(text)
    /\ \A k \in 1..Len(name) :
          IF ignorecase THEN lower_char(text[i + k]) = lower_char(name[k])
          ELSE text[i + k] = name[k]

\* the occurrence at offset i is delimited on each side by the start or end of
\* the text or by a character that is no word character
Delimited(name, text, i) ==
    /\ i = 0 \/ text[i] \notin WordChars
    /\ i + Len(name) = Len(text) \/ text[i + Len(name) + 1] \notin WordChars

\* C3: no hit when the name occurs in the text only inside a longer word, and
\* a hit whenever it occurs as a standalone token, for every name of the set,
\* also one that starts or ends with a character that is no word character.
C3_WordBoundary ==
    (call.fn = "search" /\ ret.done) =>
        LET offsets == {i \in 0..Len(call.text) :
                          OccursAt(call.name, call.text, i, call.case_insensitive)}
            standalone == \E i \in offsets : Delimited(call.name, call.text, i)
        IN /\ (offsets # {} /\ ~standalone) => ~ret.value
           /\ standalone => ret.value

(***************************************************************************)
(* The two normalisations applied to the same string.                      *)
(***************************************************************************)
\* line 68: what _get_names applies to the stripped line
normalize_name(entry) == _simplify_text(entry)

\* line 100: what _parse_names applies to the raw text of a page
normalize_page(raw) == _simplify_text(_flatten_text(raw))

\* stripped entries of a names file
EntrySet ==
    {strip(e) : e \in SeqsUpTo({"A", " ", "'"}, MaxEntryLen)}
        \cup {<<"A">> \o Artifact \o <<"n">>}

InitNorm ==
    /\ Idle
    /\ call \in {[fn |-> "normalize", s |-> e] : e \in EntrySet}
    /\ ret = Pending

CallNormalize ==
    /\ call.fn = "normalize"
    /\ ~ret.done
    /\ ret' = Returned([name |-> normalize_name(call.s), text |-> normalize_page(call.s)])
    /\ UNCHANGED <<call, indexer_vars>>

SpecNorm == InitNorm /\ [][CallNormalize]_vars

\* C8: for every string s the normalised name obtained from s equals the
\* normalised page text obtained from s.
C8_NormalizationParity ==
    (call.fn = "normalize" /\ ret.done) => ret.value.name = ret.value.text

(***************************************************************************)
(* The page filter, PagesIncludedSpecs.  Its code is not in the sources    *)
(* (only its test is): it is modelled from the specification's section on  *)
(* the page filter.                                                        *)
(***************************************************************************)
\* text.split(sep) for a one-character separator
RECURSIVE split_from(_, _, _)
split_from(text, sep, item) ==
    IF text = <<>> THEN <<item>>
    ELSE IF Head(text) = sep THEN <<item>> \o split_from(Tail(text), sep, <<>>)
    ELSE split_from(Tail(text), sep, Append(item, Head(text)))

split(text, sep) == split_from(text, sep, <<>>)

digit_value(c) ==
    CASE c = "0" -> 0 [] c = "1" -> 1 [] c = "2" -> 2 [] c = "3" -> 3 [] c = "4" -> 4
      [] c = "5" -> 5 [] c = "6" -> 6 [] c = "7" -> 7 [] c = "8" -> 8 [] c = "9" -> 9

\* int(text) of a string of decimal digits
RECURSIVE parse_int(_)
parse_int(text) ==
    IF text = <<>> THEN 0
    ELSE parse_int(SubSeq(text, 1, Len(text) - 1)) * 10 + digit_value(text[Len(text)])

\* one entry of the list: a single integer, or a range A..B
parse_entry(item) ==
    IF Contains(item, <<".", ".">>)
    THEN LET i == CHOOSE k \in 0..Len(item) : StartsWithAt(item, <<".", ".">>, k)
         IN [first |-> parse_int(SubSeq(item, 1, i)),
             last |-> parse_int(SubSeq(item, i + 3, Len(item)))]
    ELSE [first |-> parse_int(item), last |-> parse_int(item)]

\* PagesIncludedSpecs(spec): an absent or empty spec includes every page
PagesIncludedSpecs(spec) ==
    IF ~spec.given \/ spec.text = <<>> THEN [all |-> TRUE, entries |-> <<>>]
    ELSE LET items == split(spec.text, ",")
         IN [all |-> FALSE, entries |-> [k \in 1..Len(items) |-> parse_entry(items[k])]]

\* mutant of page_included: the upper bound of a range is left out
page_included_exclusive(page, specs) ==
    \/ specs.all
    \/ \E k \in 1..Len(specs.entries) :
          \/ page = specs.entries[k].first
          \/ specs.entries[k].first <= page /\ page < specs.entries[k].last

\* page in specs
page_included(page, specs) ==
    \/ specs.all
    \/ \E k \in 1..Len(specs.entries) :
          specs.entries[k].first <= page /\ page <= specs.entries[k].last

\* The entries the generated specifications list, and the pages tested.
ItemValues == {1, 3, 11, 80}

ListedItems ==
    {[kind |-> "page", page |-> v] : v \in ItemValues}
        \cup {[kind |-> "range", first |-> r[1], last |-> r[2]] :
                r \in {q \in ItemValues \X ItemValues : q[1] <= q[2]}}

TestPages == {0, 1, 2, 3, 4, 10, 11, 12, 45, 79, 80, 81, 400, 425, 450, 451}

\* the text of a listed entry
item_text(item) ==
    IF item.kind = "page" THEN str(item.page)
    ELSE str(item.first) \o <<".", ".">> \o str(item.last)

spec_text(listed) == join(<<",">>, [k \in 1..Len(listed) |-> item_text(listed[k])])

\* "1,11..79,400..450"
ExampleSpec ==
    <<"1", ",", "1", "1", ".", ".", "7", "9", ",",
      "4", "0", "0", ".", ".", "4", "5", "0">>

ExampleListed ==
    << [kind |-> "page", page |-> 1],
       [kind |-> "range", first |-> 11, last |-> 79],
       [kind |-> "range", first |-> 400, last |-> 450] >>

InitPages ==
    /\ Idle
    /\ \E page \in TestPages :
          \/ call = [fn |-> "PagesIncludedSpecs", spec |-> [given |-> FALSE],
                     listed |-> <<>>, page |-> page]
          \/ call = [fn |-> "PagesIncludedSpecs",
                     spec |-> [given |-> TRUE, text |-> ExampleSpec],
                     listed |-> ExampleListed, page |-> page]
          \/ \E listed \in SeqsUpTo(ListedItems, MaxSpecItems) \ {<<>>} :
                call = [fn |-> "PagesIncludedSpecs",
                        spec |-> [given |-> TRUE, text |-> spec_text(listed)],
                        listed |-> listed, page |-> page]
    /\ ret = Pending

CallPageIncluded ==
    /\ call.fn = "PagesIncludedSpecs"
    /\ ~ret.done
    /\ ret' = Returned(page_included(call.page, PagesIncludedSpecs(call.spec)))
    /\ UNCHANGED <<call, indexer_vars>>

SpecPages == InitPages /\ [][CallPageIncluded]_vars

\* the listed entry covers the page
Covers(item, page) ==
    IF item.kind = "page" THEN page = item.page
    ELSE item.first <= page /\ page <= item.last

\* C6: a spec parsed from a list of integers and inclusive ranges contains a
\* page exactly when the page equals a listed integer or lies within a listed
\* range, an absent spec contains every page, and 1,11..79,400..450 contains
\* 1, 11 to 79 and 400 to 450 but not 10 or 80.
C6_PageFilter ==
    (call.fn = "PagesIncludedSpecs" /\ ret.done) =>
        /\ ~call.spec.given => ret.value
        /\ call.spec.given =>
              ret.value = (\E k \in 1..Len(call.listed) : Covers(call.listed[k], call.page))
        /\ (call.spec.given /\ call.spec.text = ExampleSpec) =>
              ret.value = (call.page \in ({1} \cup (11..79) \cup (400..450)))

\* C6 witness: page 79, the upper bound of a range of the example, is included.
C6_Witness ==
    /\ call.fn = "PagesIncludedSpecs"
    /\ call.spec.given
    /\ call.spec.text = ExampleSpec
    /\ call.page = 79
    /\ ret.done
    /\ ret.value

(***************************************************************************)
(* _flatten_text applied on its own, statement by statement, and applied   *)
(* again to its own result.  ret.text is the local variable text,          *)
(* ret.results the values returned so far.                                 *)
(***************************************************************************)
\* mutant of flatten_join: the line breaks become spaces before the hyphens
\* at a line end are removed
flatten_join_swapped(text) == replace(replace(text, <<"\n">>, <<" ">>), <<"-", "\n">>, <<>>)

\* lines 156-157
flatten_join(text) == replace(replace(text, <<"-", "\n">>, <<>>), <<"\n">>, <<" ">>)

\* line 159: the body of the while loop
collapse_step(text) == replace(text, <<" ", " ">>, <<" ">>)

FlattenTextSet ==
    SeqsUpTo({"A", "-", "\n", " "}, MaxFlattenLen)
        \cup {<<"B", "o", "-", "\n", "b">>}

InitFlatten ==
    /\ Idle
    /\ call \in {[fn |-> "_flatten_text", text |-> t] : t \in FlattenTextSet}
    /\ ret = [done |-> FALSE, pc |-> "join", text |-> call.text, results |-> <<>>]

\* lines 156-157
FlattenJoin ==
    /\ call.fn = "_flatten_text"
    /\ ~ret.done
    /\ ret.pc = "join"
    /\ ret' = [ret EXCEPT !.pc = "while", !.text = flatten_join(ret.text)]
    /\ UNCHANGED <<call, indexer_vars>>

\* lines 158-159: one turn of the while loop
FlattenCollapse ==
    /\ call.fn = "_flatten_text"
    /\ ~ret.done
    /\ ret.pc = "while"
    /\ Contains(ret.text, <<" ", " ">>)
    /\ ret' = [ret EXCEPT !.text = collapse_step(ret.text)]
    /\ UNCHANGED <<call, indexer_vars>>

\* lines 158 and 160: the loop is left and text is returned; the first result
\* is passed to _flatten_text again
FlattenReturn ==
    /\ call.fn = "_flatten_text"
    /\ ~ret.done
    /\ ret.pc = "while"
    /\ ~Contains(ret.text, <<" ", " ">>)
    /\ ret' = [ret EXCEPT !.results = Append(ret.results, ret.text),
                          !.pc = "join",
                          !.done = (Len(ret.results) = 1)]
    /\ UNCHANGED <<call, indexer_vars>>

NextFlatten ==
    \/ FlattenJoin
    \/ FlattenCollapse
    \/ FlattenReturn

\* the statements of a call run one after the other until it returns
SpecFlatten == InitFlatten /\ [][NextFlatten]_vars /\ WF_vars(NextFlatten)

\* the character at k is the hyphen or the line break of a hyphen at a line end
InHyphenBreak(text, k) ==
    \/ text[k] = "-" /\ k < Len(text) /\ text[k + 1] = "\n"
    \/ text[k] = "\n" /\ k > 1 /\ text[k - 1] = "-"

\* the text without its hyphens at a line end, each other line break a space
RECURSIVE Rejoined(_, _)
Rejoined(text, k) ==
    IF k > Len(text) THEN <<>>
    ELSE IF InHyphenBreak(text, k) THEN Rejoined(text, k + 1)
    ELSE <<IF text[k] = "\n" THEN " " ELSE text[k]>> \o Rejoined(text, k + 1)

\* the text without the spaces that follow a space
SingleSpaced(text) ==
    LET keep == {k \in 1..Len(text) : ~(text[k] = " " /\ k > 1 /\ text[k - 1] = " ")}
        RECURSIVE pick(_)
        pick(k) == IF k > Len(text) THEN <<>>
                   ELSE IF k \in keep THEN <<text[k]>> \o pick(k + 1) ELSE pick(k + 1)
    IN pick(1)

FlattenResultsOk ==
    call.fn = "_flatten_text" =>
        /\ \A r \in 1..Len(ret.results) :
              /\ ~Contains(ret.results[r], <<"\n">>)
              /\ ~Contains(ret.results[r], <<" ", " ">>)
        /\ Len(ret.results) >= 1 =>
              /\ ret.results[1] = SingleSpaced(Rejoined(call.text, 1))
              /\ ret.results[1] = _flatten_text(call.text)
        /\ Len(ret.results) = 2 => ret.results[2] = ret.results[1]

\* C11: _flatten_text returns for every text; its result holds no line break
\* and no two spaces in a row, it is the text with every hyphen at a line end
\* removed together with the line break (the halves joined without a space),
\* the other line breaks turned into spaces and space runs collapsed; and
\* flattening the result again returns the same text.
C11_FlattenIdempotent == []FlattenResultsOk /\ <>(ret.done)

\* C11 witness: A-\nA was flattened to AA, and flattening AA gave AA again.
C11_Witness ==
    /\ call.fn = "_flatten_text"
    /\ call.text = <<"A", "-", "\n", "A">>
    /\ ret.done
    /\ ret.results = <<<<"A", "A">>, <<"A", "A">>>>

====
